---- MODULE Spec2Model ----
(***************************************************************************)
(* Model of analysis.py: the batch pipeline main() (file discovery, load   *)
(* and clean, preview, SQLite store, seven aggregate queries, result       *)
(* files, charts) and the functions it calls.                              *)
(*                                                                         *)
(* Cells are tuples so that a missing value compares with any other cell:  *)
(*   NULL        the missing value (SQL NULL, pandas NaN)                  *)
(*   <<y, h>>    a current_age of y + h/2 years, h \in {0, 1}              *)
(*   <<v>>       an amount, an id, an mcc or a text value v                *)
(* An average is the pair <<sum, count>> of the amounts it is taken over.  *)
(***************************************************************************)
EXTENDS Integers, Sequences, FiniteSets, TLC

VARIABLES
  pc,            \* position of the running call
  environ,       \* value of the PREVIEW_ONLY environment variable
  users,         \* in-memory users frame (rows), NoFrame before load_data
  cards,         \* in-memory cards frame
  transactions,  \* in-memory transactions frame
  columns,       \* names of the columns the three frames hold
  db,            \* the SQLite store: per table, whether it exists, and its rows
  conn,          \* number of open sqlite3 connections
  out,           \* the dict run_queries is building
  results,       \* what run_queries returned to main
  charts,        \* what create_charts derived
  fs,            \* artefacts written so far
  started,       \* stages of main started in this run, in order
  completed,     \* stages of main completed in this run, in order
  err,           \* the exception being propagated, "none" if none
  runs,          \* number of runs of the program so far
  stored         \* inputs of the normalise_and_store_sqlite calls that returned normally

vars == <<pc, environ, users, cards, transactions, columns, db, conn, out,
          results, charts, fs, started, completed, err, runs, stored>>

---------------------------------------------------------------------------
(* Bounds of the model *)

MaxUsers == 2
MaxTx == 2
MaxMccTx == 7
MaxRuns == 2

---------------------------------------------------------------------------
(* Cells *)

NULL == <<>>
NoFrame == <<>>
NoResults == <<>>

\* a < n, a <= n, a >= n on an age cell; any comparison with a missing value is not true
AgeLt(a, n) == a # NULL /\ 2 * a[1] + a[2] < 2 * n
AgeLe(a, n) == a # NULL /\ 2 * a[1] + a[2] <= 2 * n
AgeGe(a, n) == a # NULL /\ 2 * a[1] + a[2] >= 2 * n
AgeBetween(a, lo, hi) == AgeGe(a, lo) /\ AgeLe(a, hi)

AllCols == {"gender", "card_type", "current_age", "use_chip", "mcc",
            "card_brand", "id", "card_id", "amount"}

---------------------------------------------------------------------------
(* Helpers *)

RECURSIVE SumOver(_, _)
\* sum of f[x] over the finite set S
SumOver(S, f) ==
  IF S = {} THEN 0
  ELSE LET x == CHOOSE y \in S : TRUE IN f[x] + SumOver(S \ {x}, f)

RECURSIVE OrderingsBy(_, _)
\* every enumeration of S in which no element is followed by one that sorts
\* strictly before it; Before[<<x, y>>] says x sorts no later than y. Elements
\* that tie come in any order: neither SQLite's ORDER BY nor pandas' default
\* quicksort fixes the order of ties.
OrderingsBy(S, Before) ==
  IF S = {} THEN {<<>>}
  ELSE LET first == {x \in S : \A y \in S : Before[<<x, y>>]}
       IN UNION {{<<x>> \o r : r \in OrderingsBy(S \ {x}, Before)} : x \in first}

Take(s, n) == SubSeq(s, 1, IF Len(s) < n THEN Len(s) ELSE n)

RowSet(s) == {s[i] : i \in DOMAIN s}

---------------------------------------------------------------------------
(* Age buckets *)

\* the CASE expression of the age_distribution query
SqlAgeBucket(a) ==
  IF AgeLt(a, 30) THEN "<30"
  ELSE IF AgeBetween(a, 30, 39) THEN "30-39"
  ELSE IF AgeBetween(a, 40, 49) THEN "40-49"
  ELSE IF AgeBetween(a, 50, 59) THEN "50-59"
  ELSE IF AgeBetween(a, 60, 69) THEN "60-69"
  ELSE "70+"

\* bucket with <= for <: a boundary age falls into the lower bucket
bucketInclusive(a) ==
  IF AgeLe(a, 30) THEN "<30"
  ELSE IF AgeLe(a, 40) THEN "30-39"
  ELSE IF AgeLe(a, 50) THEN "40-49"
  ELSE IF AgeLe(a, 60) THEN "50-59"
  ELSE IF AgeLe(a, 70) THEN "60-69"
  ELSE "70+"

\* create_charts.bucket
bucket(a) ==
  IF AgeLt(a, 30) THEN "<30"
  ELSE IF AgeLt(a, 40) THEN "30-39"
  ELSE IF AgeLt(a, 50) THEN "40-49"
  ELSE IF AgeLt(a, 60) THEN "50-59"
  ELSE IF AgeLt(a, 70) THEN "60-69"
  ELSE "70+"

\* the bucket labels in ascending text order ('<' sorts after the digits), the
\* order of both ORDER BY age_bucket and sort_values("age_bucket")
LabelOrder == <<"30-39", "40-49", "50-59", "60-69", "70+", "<30">>

\* SELECT CASE ... END AS age_bucket, COUNT(*) AS num_users FROM users
\* GROUP BY age_bucket ORDER BY age_bucket
AgeDistribution(urows) ==
  LET n(l) == Cardinality({i \in DOMAIN urows : SqlAgeBucket(urows[i].current_age) = l})
      labs == SelectSeq(LabelOrder, LAMBDA l : n(l) > 0)
  IN [i \in DOMAIN labs |-> [age_bucket |-> labs[i], num_users |-> n(labs[i])]]

\* users["current_age"].apply(bucket).value_counts() ... sort_values("age_bucket")
ChartAgeBuckets(urows) ==
  LET n(l) == Cardinality({i \in DOMAIN urows : bucket(urows[i].current_age) = l})
      labs == SelectSeq(LabelOrder, LAMBDA l : n(l) > 0)
  IN [i \in DOMAIN labs |-> [age_bucket |-> labs[i], count |-> n(labs[i])]]

---------------------------------------------------------------------------
(* top_mcc *)

TopLimit == 5

\* TopMcc without its LIMIT clause
TopMccNoLimit(trows) ==
  LET groups == {trows[i].mcc : i \in DOMAIN trows}
      n(m) == Cardinality({i \in DOMAIN trows : trows[i].mcc = m})
      before == [p \in groups \X groups |-> n(p[1]) >= n(p[2])]
  IN {[i \in DOMAIN o |-> [mcc |-> o[i], txn_count |-> n(o[i])]] :
        o \in OrderingsBy(groups, before)}

\* SELECT mcc, COUNT(*) AS txn_count FROM transactions GROUP BY mcc
\* ORDER BY txn_count DESC LIMIT 5: the set of results the store may return
TopMcc(trows) ==
  LET groups == {trows[i].mcc : i \in DOMAIN trows}
      n(m) == Cardinality({i \in DOMAIN trows : trows[i].mcc = m})
      before == [p \in groups \X groups |-> n(p[1]) >= n(p[2])]
  IN {[i \in DOMAIN Take(o, TopLimit) |-> [mcc |-> o[i], txn_count |-> n(o[i])]] :
        o \in OrderingsBy(groups, before)}

---------------------------------------------------------------------------
(* Average amount by brand *)

\* a sorts no later than b in descending order of average, missing averages last
AvgBefore(a, b) == b = NULL \/ (a # NULL /\ a[1] * b[2] >= b[1] * a[2])

\* AVG(amount) / .mean() over the transactions ts: missing amounts are skipped
AvgAmount(trows, ts) ==
  LET nn == {i \in ts : trows[i].amount # NULL}
  IN IF nn = {} THEN NULL
     ELSE <<SumOver(nn, [i \in nn |-> trows[i].amount[1]]), Cardinality(nn)>>

\* JoinRows as a LEFT JOIN: a transaction with no card joins a row of NULLs
JoinRowsLeft(crows, trows) ==
  LET match(i) == {j \in DOMAIN crows :
                     /\ trows[i].card_id # NULL
                     /\ crows[j].id # NULL
                     /\ trows[i].card_id = crows[j].id}
  IN {[t |-> p[1], c |-> p[2], card_brand |-> crows[p[2]].card_brand] :
        p \in {q \in (DOMAIN trows) \X (DOMAIN crows) : q[2] \in match(q[1])}}
     \cup {[t |-> i, c |-> 0, card_brand |-> NULL] :
             i \in {k \in DOMAIN trows : match(k) = {}}}

\* FROM transactions t JOIN cards c ON t.card_id = c.id
JoinRows(crows, trows) ==
  {[t |-> p[1], c |-> p[2], card_brand |-> crows[p[2]].card_brand] :
     p \in {q \in (DOMAIN trows) \X (DOMAIN crows) :
              /\ trows[q[1]].card_id # NULL
              /\ crows[q[2]].id # NULL
              /\ trows[q[1]].card_id = crows[q[2]].id}}

\* SELECT c.card_brand, AVG(t.amount) AS avg_amount ... GROUP BY c.card_brand
\* ORDER BY avg_amount DESC: the set of results the store may return
AvgTxnAmountByBrand(crows, trows) ==
  LET j == JoinRows(crows, trows)
      brands == {r.card_brand : r \in j}
      avg(b) == AvgAmount(trows, {r.t : r \in {x \in j : x.card_brand = b}})
      rows == {[card_brand |-> b, avg_amount |-> avg(b)] : b \in brands}
      before == [p \in rows \X rows |-> AvgBefore(p[1].avg_amount, p[2].avg_amount)]
  IN OrderingsBy(rows, before)

\* transactions["card_id"].map(cards.set_index("id")["card_brand"])
MapBrand(crows, cid) ==
  IF \E j \in DOMAIN crows : crows[j].id = cid
  THEN crows[CHOOSE j \in DOMAIN crows : crows[j].id = cid].card_brand
  ELSE NULL

\* tx_with_brand.groupby("card_brand", dropna=True)["amount"].mean()
\* .reset_index().sort_values("amount", ascending=False)
ChartBrandAvg(crows, trows) ==
  LET brandOf == [i \in DOMAIN trows |-> MapBrand(crows, trows[i].card_id)]
      brands == {brandOf[i] : i \in DOMAIN trows} \ {NULL}
      avg(b) == AvgAmount(trows, {i \in DOMAIN trows : brandOf[i] = b})
      rows == {[card_brand |-> b, amount |-> avg(b)] : b \in brands}
      before == [p \in rows \X rows |-> AvgBefore(p[1].amount, p[2].amount)]
  IN OrderingsBy(rows, before)


---------------------------------------------------------------------------
(* State of the program *)

StageOrder == <<"discover", "load", "preview", "store", "queries", "save", "charts">>

\* the seven queries of run_queries, in the order it runs them
QueryOrder == <<"gender_distribution", "age_distribution", "card_brand_distribution",
                "card_type_distribution", "top_mcc", "transaction_methods",
                "avg_txn_amount_by_brand">>

\* the table(s) each query reads
QueryTables(q) ==
  CASE q \in {"gender_distribution", "age_distribution"} -> {"users"}
    [] q \in {"card_brand_distribution", "card_type_distribution"} -> {"cards"}
    [] q \in {"top_mcc", "transaction_methods"} -> {"transactions"}
    [] OTHER -> {"transactions", "cards"}

\* the columns each query names
QueryCols(q) ==
  CASE q = "gender_distribution" -> {"gender"}
    [] q = "age_distribution" -> {"current_age"}
    [] q = "card_brand_distribution" -> {"card_brand"}
    [] q = "card_type_distribution" -> {"card_type"}
    [] q = "top_mcc" -> {"mcc"}
    [] q = "transaction_methods" -> {"use_chip"}
    [] OTHER -> {"card_brand", "amount", "card_id", "id"}

\* result of a query whose rows no property below reads: only that it ran
RowsNotModelled == <<"rows">>

\* the results query q may return on the store d
QueryResults(q, d) ==
  CASE q = "age_distribution" -> {AgeDistribution(d.users.rows)}
    [] q = "top_mcc" -> TopMcc(d.transactions.rows)
    [] q = "avg_txn_amount_by_brand" ->
         AvgTxnAmountByBrand(d.cards.rows, d.transactions.rows)
    [] OTHER -> {RowsNotModelled}

\* the six derivations of create_charts, named by the file each one saves
Derivations == {"gender_distribution", "card_type_distribution", "age_distribution",
                "transaction_method_distribution", "top_mcc_frequency",
                "avg_amount_by_brand"}

\* ChartGuard with the brand average guarded on the cards columns only
ChartGuardCardsOnly(d) ==
  CASE d = "gender_distribution" -> {"gender"}
    [] d = "card_type_distribution" -> {"card_type"}
    [] d = "age_distribution" -> {"current_age"}
    [] d = "transaction_method_distribution" -> {"use_chip"}
    [] d = "top_mcc_frequency" -> {"mcc"}
    [] OTHER -> {"card_brand", "id"}

\* the columns the `if` of each derivation asks for
ChartGuard(d) ==
  CASE d = "gender_distribution" -> {"gender"}
    [] d = "card_type_distribution" -> {"card_type"}
    [] d = "age_distribution" -> {"current_age"}
    [] d = "transaction_method_distribution" -> {"use_chip"}
    [] d = "top_mcc_frequency" -> {"mcc"}
    [] OTHER -> {"card_brand", "id", "card_id", "amount"}

\* the columns the body of each derivation indexes (a KeyError if one is absent)
ChartUses(d) ==
  CASE d = "gender_distribution" -> {"gender"}
    [] d = "card_type_distribution" -> {"card_type"}
    [] d = "age_distribution" -> {"current_age"}
    [] d = "transaction_method_distribution" -> {"use_chip"}
    [] d = "top_mcc_frequency" -> {"mcc"}
    [] OTHER -> {"card_brand", "id", "card_id", "amount"}

\* PreviewOnly with the flag compared to "true" instead of "1"
PreviewOnlyTrue == (IF environ = "unset" THEN "0" ELSE environ) = "true"

\* os.getenv("PREVIEW_ONLY", "0") == "1"
PreviewOnly == (IF environ = "unset" THEN "0" ELSE environ) = "1"

\* ToSql with if_exists="append"
ToSqlAppend(old, frame) == [present |-> TRUE, rows |-> old.rows \o frame]

\* DataFrame.to_sql(name, conn, if_exists="replace", index=False)
ToSql(old, frame) == [present |-> TRUE, rows |-> frame]

\* OnStoreError without the finally clause: the exception leaves at once
OnStoreErrorNoFinally == "failed"

\* an exception raised inside try: ... finally: conn.close() runs the finally clause
OnStoreError == "store_close"
OnQueryError == "query_close"

\* AfterNotFound with the exception swallowed: main goes on to its next statement
AfterNotFoundSwallowed(next) == next

\* FileNotFoundError leaves _find_data_file and main: nothing catches it
AfterNotFound(next) == "failed"

EmptyDb == [users |-> [present |-> FALSE, rows |-> <<>>],
            cards |-> [present |-> FALSE, rows |-> <<>>],
            transactions |-> [present |-> FALSE, rows |-> <<>>]]

\* the program is started as a script: main() is about to run
InitFor(E) ==
  /\ pc = "find_users"
  /\ environ \in E
  /\ users = NoFrame /\ cards = NoFrame /\ transactions = NoFrame
  /\ columns = {}
  /\ db = EmptyDb
  /\ conn = 0
  /\ out = NoResults /\ results = NoResults /\ charts = NoResults
  /\ fs = {}
  /\ started = <<>> /\ completed = <<>>
  /\ err = "none"
  /\ runs = 1
  /\ stored = <<>>

---------------------------------------------------------------------------
(* main, statement by statement *)

\* users_path = _find_data_file("users_data.csv")
FindUsers ==
  /\ pc = "find_users"
  /\ started' = Append(started, "discover")
  /\ \/ /\ pc' = "find_cards"
        /\ err' = err
     \/ /\ pc' = AfterNotFound("find_cards")
        /\ err' = "FileNotFoundError"
  /\ UNCHANGED <<environ, users, cards, transactions, columns, db, conn, out,
                 results, charts, fs, completed, runs, stored>>

\* cards_path = _find_data_file("cards_data.csv")
FindCards ==
  /\ pc = "find_cards"
  /\ \/ /\ pc' = "find_transactions"
        /\ err' = err
     \/ /\ pc' = AfterNotFound("find_transactions")
        /\ err' = "FileNotFoundError"
  /\ UNCHANGED <<environ, users, cards, transactions, columns, db, conn, out,
                 results, charts, fs, started, completed, runs, stored>>

\* transactions_path = _find_data_file("transactions_data.csv")
FindTransactions ==
  /\ pc = "find_transactions"
  /\ \/ /\ pc' = "load_data"
        /\ err' = err
        /\ completed' = Append(completed, "discover")
     \/ /\ pc' = AfterNotFound("load_data")
        /\ err' = "FileNotFoundError"
        /\ completed' = completed
  /\ UNCHANGED <<environ, users, cards, transactions, columns, db, conn, out,
                 results, charts, fs, started, runs, stored>>

\* users, cards, transactions = load_data(...): the files hold one of the inputs D;
\* pd.to_datetime or astype(float) raises on a cell it cannot convert
LoadData(D) ==
  /\ pc = "load_data"
  /\ started' = Append(started, "load")
  /\ \/ /\ users' \in D.users
        /\ cards' \in D.cards
        /\ transactions' \in D.transactions
        /\ columns' \in D.columns
        /\ completed' = Append(completed, "load")
        /\ pc' = "preview"
        /\ err' = err
     \/ /\ pc' = "failed"
        /\ err' = "ParseError"
        /\ UNCHANGED <<users, cards, transactions, columns, completed>>
  /\ UNCHANGED <<environ, db, conn, out, results, charts, fs, runs, stored>>

\* the three _preview_df calls and the write of data_preview.txt
Preview ==
  /\ pc = "preview"
  /\ started' = Append(started, "preview")
  /\ \/ /\ fs' = fs \cup {"data_preview.txt"}
        /\ completed' = Append(completed, "preview")
        /\ pc' = "check_preview_only"
        /\ err' = err
     \/ /\ pc' = "failed"
        /\ err' = "OSError"
        /\ UNCHANGED <<fs, completed>>
  /\ UNCHANGED <<environ, users, cards, transactions, columns, db, conn, out,
                 results, charts, runs, stored>>

\* if os.getenv("PREVIEW_ONLY", "0") == "1": return
CheckPreviewOnly ==
  /\ pc = "check_preview_only"
  /\ pc' = IF PreviewOnly THEN "done" ELSE "store_connect"
  /\ UNCHANGED <<environ, users, cards, transactions, columns, db, conn, out,
                 results, charts, fs, started, completed, err, runs, stored>>

---------------------------------------------------------------------------
(* normalise_and_store_sqlite *)

\* conn = sqlite3.connect(str(db_path)), before the try
StoreConnect ==
  /\ pc = "store_connect"
  /\ started' = Append(started, "store")
  /\ \/ /\ conn' = conn + 1
        /\ fs' = fs \cup {"user_behavior.db"}
        /\ pc' = "store_users"
        /\ err' = err
     \/ /\ pc' = "failed"
        /\ err' = "StoreError"
        /\ UNCHANGED <<conn, fs>>
  /\ UNCHANGED <<environ, users, cards, transactions, columns, db, out, results,
                 charts, completed, runs, stored>>

\* <frame>.to_sql(name, conn, if_exists="replace", index=False)
StoreTable(name, frame, at, next) ==
  /\ pc = at
  /\ \/ /\ db' = [db EXCEPT ![name] = ToSql(@, frame)]
        /\ pc' = next
        /\ err' = err
     \/ /\ pc' = OnStoreError
        /\ err' = "StoreError"
        /\ db' = db
  /\ UNCHANGED <<environ, users, cards, transactions, columns, conn, out, results,
                 charts, fs, started, completed, runs, stored>>

StoreUsers == StoreTable("users", users, "store_users", "store_cards")
StoreCards == StoreTable("cards", cards, "store_cards", "store_transactions")
StoreTransactions ==
  StoreTable("transactions", transactions, "store_transactions", "store_close")

\* finally: conn.close(); then the call returns, or the exception goes on
StoreClose ==
  /\ pc = "store_close"
  /\ conn' = conn - 1
  /\ IF err = "none"
     THEN /\ pc' = "query_connect"
          /\ completed' = Append(completed, "store")
          /\ stored' = Append(stored, [users |-> users, cards |-> cards,
                                       transactions |-> transactions])
     ELSE /\ pc' = "failed"
          /\ UNCHANGED <<completed, stored>>
  /\ UNCHANGED <<environ, users, cards, transactions, columns, db, out, results,
                 charts, fs, started, err, runs>>

---------------------------------------------------------------------------
(* run_queries *)

\* conn = sqlite3.connect(str(db_path)), before the try
QueryConnect ==
  /\ pc = "query_connect"
  /\ started' = Append(started, "queries")
  /\ \/ /\ conn' = conn + 1
        /\ out' = NoResults
        /\ pc' = QueryOrder[1]
        /\ err' = err
     \/ /\ pc' = "failed"
        /\ err' = "StoreError"
        /\ UNCHANGED <<conn, out>>
  /\ UNCHANGED <<environ, users, cards, transactions, columns, db, results, charts,
                 fs, completed, runs, stored>>

\* out[name] = pd.read_sql_query(...): fails on a missing table or column, or
\* on any error of the store
RunQuery(i) ==
  /\ pc = QueryOrder[i]
  /\ \/ /\ \A t \in QueryTables(QueryOrder[i]) : db[t].present
        /\ QueryCols(QueryOrder[i]) \subseteq columns
        /\ \E r \in QueryResults(QueryOrder[i], db) :
             out' = (QueryOrder[i] :> r) @@ out
        /\ pc' = IF i < Len(QueryOrder) THEN QueryOrder[i + 1] ELSE "query_close"
        /\ err' = err
     \/ /\ pc' = OnQueryError
        /\ err' = "StoreError"
        /\ out' = out
  /\ UNCHANGED <<environ, users, cards, transactions, columns, db, conn, results,
                 charts, fs, started, completed, runs, stored>>

\* finally: conn.close(); then return out, or the exception goes on
QueryClose ==
  /\ pc = "query_close"
  /\ conn' = conn - 1
  /\ IF err = "none"
     THEN /\ pc' = "save_query_results"
          /\ results' = out
          /\ completed' = Append(completed, "queries")
     ELSE /\ pc' = "failed"
          /\ UNCHANGED <<results, completed>>
  /\ UNCHANGED <<environ, users, cards, transactions, columns, db, out, charts, fs,
                 started, err, runs, stored>>

---------------------------------------------------------------------------
(* save_query_results and create_charts *)

\* out_dir.mkdir(...); one to_csv per result; a failure may come after the mkdir
SaveQueryResults ==
  /\ pc = "save_query_results"
  /\ started' = Append(started, "save")
  /\ \/ /\ fs' = fs \cup {"results"}
        /\ completed' = Append(completed, "save")
        /\ pc' = "create_charts"
        /\ err' = err
     \/ /\ pc' = "failed"
        /\ err' = "OSError"
        /\ fs' \in {fs, fs \cup {"results"}}
        /\ completed' = completed
  /\ UNCHANGED <<environ, users, cards, transactions, columns, db, conn, out,
                 results, charts, runs, stored>>

\* create_charts(users, cards, transactions, charts_dir): each derivation whose
\* guard holds runs; a derivation indexing an absent column raises KeyError, and
\* mkdir or savefig may fail
CreateCharts ==
  /\ pc = "create_charts"
  /\ started' = Append(started, "charts")
  /\ LET run == {d \in Derivations : ChartGuard(d) \subseteq columns}
         keyError == \E d \in run : ~(ChartUses(d) \subseteq columns)
     IN \/ /\ ~keyError
           /\ \E b \in ChartBrandAvg(cards, transactions) :
                charts' = [d \in run |->
                             IF d = "age_distribution" THEN ChartAgeBuckets(users)
                             ELSE IF d = "avg_amount_by_brand" THEN b
                             ELSE RowsNotModelled]
           /\ fs' = fs \cup {"charts"}
           /\ completed' = Append(completed, "charts")
           /\ pc' = "done"
           /\ err' = err
        \/ /\ pc' = "failed"
           /\ \/ err' = "OSError" /\ fs' \in {fs, fs \cup {"charts"}}
              \/ keyError /\ err' = "KeyError" /\ fs' = fs \cup {"charts"}
           /\ UNCHANGED <<charts, completed>>
  /\ UNCHANGED <<environ, users, cards, transactions, columns, db, conn, out,
                 results, runs, stored>>

\* the script is run again on the same directory: the store file and the
\* artefacts stay, everything in memory is new
Rerun ==
  /\ pc \in {"done", "failed"}
  /\ runs < MaxRuns
  /\ runs' = runs + 1
  /\ pc' = "find_users"
  /\ users' = NoFrame /\ cards' = NoFrame /\ transactions' = NoFrame
  /\ columns' = {}
  /\ out' = NoResults /\ results' = NoResults /\ charts' = NoResults
  /\ started' = <<>> /\ completed' = <<>>
  /\ err' = "none"
  /\ UNCHANGED <<environ, db, conn, fs, stored>>

\* one step of a run of main on input files holding one of the inputs D
MainStep(D) ==
  \/ FindUsers
  \/ FindCards
  \/ FindTransactions
  \/ LoadData(D)
  \/ Preview
  \/ CheckPreviewOnly
  \/ StoreConnect
  \/ StoreUsers
  \/ StoreCards
  \/ StoreTransactions
  \/ StoreClose
  \/ QueryConnect
  \/ \E i \in DOMAIN QueryOrder : RunQuery(i)
  \/ QueryClose
  \/ SaveQueryResults
  \/ CreateCharts

---------------------------------------------------------------------------
(* Inputs *)

SeqsUpTo(S, n) == UNION {[1..k -> S] : k \in 0..n}

RECURSIVE AscendingSeqs(_, _)
\* the sequences over S of length at most n whose elements never decrease
AscendingSeqs(S, n) ==
  IF n = 0 THEN {<<>>}
  ELSE LET prev == AscendingSeqs(S, n - 1)
       IN prev \cup UNION {{Append(s, x) : x \in {y \in S : s = <<>> \/ s[Len(s)] <= y}} :
                            s \in {p \in prev : Len(p) = n - 1}}

User(a) == [current_age |-> a]
Card(i, b) == [id |-> <<i>>, card_brand |-> b]
Tx(c, a, m) == [card_id |-> c, amount |-> a, mcc |-> m]

SomeUsers == <<User(<<30, 0>>), User(<<71, 0>>)>>
SomeCards == <<Card(1, <<"Visa">>), Card(2, <<"Amex">>)>>
SomeTx == <<Tx(<<1>>, <<10>>, <<5411>>), Tx(<<2>>, <<40>>, <<5812>>)>>

\* runs of main: any PREVIEW_ONLY value, all columns or one column missing
MainInputs ==
  [users |-> {<<>>, SomeUsers},
   cards |-> {SomeCards},
   transactions |-> {<<>>, SomeTx},
   columns |-> {AllCols} \cup {AllCols \ {c} : c \in AllCols}]

EnvValues == {"unset", "0", "1"}

Init == InitFor(EnvValues)
Next == MainStep(MainInputs)
Spec == Init /\ [][Next]_vars

\* users tables over the boundary ages, two fractional ages and a missing age
AgeCells ==
  {<<y, 0>> : y \in {29, 30, 39, 40, 59, 60, 69, 70, 95}} \cup {<<39, 1>>, <<69, 1>>, NULL}

AgeInputs ==
  [users |-> SeqsUpTo({User(a) : a \in AgeCells}, MaxUsers),
   cards |-> {SomeCards},
   transactions |-> {SomeTx},
   columns |-> {AllCols}]

NextAge == MainStep(AgeInputs)
SpecAge == InitFor({"unset"}) /\ [][NextAge]_vars

\* cards tables with unique ids (the first k of CardIds), any brand or none;
\* transactions on a card of the table or on none, with or without amount
CardIds == {1, 2}
BrandCells == {<<"Visa">>, <<"Amex">>, NULL}
AmountCells == {<<10>>, <<40>>, NULL}
\* a transaction's card_id: a card of the table, an id of no card, or missing
CardIdCells == {<<i>> : i \in CardIds \cup {Cardinality(CardIds) + 1}} \cup {NULL}

CardTables ==
  UNION {{[i \in 1..k |-> Card(i, b[i])] : b \in [1..k -> BrandCells]} :
           k \in 0..Cardinality(CardIds)}

BrandInputs ==
  [users |-> {SomeUsers},
   cards |-> CardTables,
   transactions |-> SeqsUpTo({Tx(c, a, <<5411>>) : c \in CardIdCells, a \in AmountCells},
                             MaxTx),
   columns |-> {AllCols}]

NextBrand == MainStep(BrandInputs)
SpecBrand == InitFor({"unset"}) /\ [][NextBrand]_vars

\* transactions tables over six merchant category codes, rows in ascending
\* order of mcc (no query counts rows by their position)
Mccs == {4121, 5300, 5411, 5541, 5812, 5912}

MccInputs ==
  [users |-> {SomeUsers},
   cards |-> {SomeCards},
   transactions |-> {[i \in DOMAIN m |-> Tx(<<1>>, <<10>>, <<m[i]>>)] :
                       m \in AscendingSeqs(Mccs, MaxMccTx)},
   columns |-> {AllCols}]

NextMcc == MainStep(MccInputs)
SpecMcc == InitFor({"unset"}) /\ [][NextMcc]_vars

\* repeated runs on the same store, the input files changed or not in between
StoreInputs ==
  [users |-> {<<>>, SubSeq(SomeUsers, 1, 1), SomeUsers},
   cards |-> {SubSeq(SomeCards, 1, 1), SomeCards},
   transactions |-> {<<>>, SomeTx},
   columns |-> {AllCols}]

NextStore == MainStep(StoreInputs) \/ Rerun
SpecStore == InitFor({"unset"}) /\ [][NextStore]_vars

\* create_charts called on frames holding any subset of the columns
InitCharts ==
  /\ pc = "create_charts"
  /\ environ = "unset"
  /\ users = SomeUsers /\ cards = SomeCards /\ transactions = SomeTx
  /\ columns \in SUBSET AllCols
  /\ db = EmptyDb
  /\ conn = 0
  /\ out = NoResults /\ results = NoResults /\ charts = NoResults
  /\ fs = {}
  /\ started = <<>> /\ completed = <<>>
  /\ err = "none"
  /\ runs = 1
  /\ stored = <<>>

NextCharts == CreateCharts
SpecCharts == InitCharts /\ [][NextCharts]_vars


---------------------------------------------------------------------------
(* Properties of main *)

Has(s, x) == \E i \in DOMAIN s : s[i] = x

\* C7: in a run with PREVIEW_ONLY=1, normalise_and_store_sqlite, run_queries,
\* save_query_results and create_charts are never invoked, and the run creates
\* no store file, no results directory and no charts directory.
C7_PreviewOnlySkipsTheRest ==
  environ = "1" =>
    /\ \A x \in {"store", "queries", "save", "charts"} : ~Has(started, x)
    /\ fs \cap {"user_behavior.db", "results", "charts"} = {}
    /\ db = EmptyDb
    /\ conn = 0
    /\ results = NoResults
    /\ charts = NoResults

\* a preview-only run that has returned from main after writing its preview
C7_Witness ==
  /\ environ = "1"
  /\ pc = "done"
  /\ Has(completed, "preview")
  /\ "data_preview.txt" \in fs

StorePcs == {"store_users", "store_cards", "store_transactions", "store_close"}
QueryPcs == RowSet(QueryOrder) \cup {"query_close"}

\* C8: a connection is open only while control is inside the call that opened
\* it (normalise_and_store_sqlite or run_queries): whenever control is with the
\* caller, after a normal return or after a failure at any table write or
\* query, no connection is open.
C8_ConnectionsClosedOnReturn ==
  /\ conn \in {0, 1}
  /\ conn = 1 <=> pc \in StorePcs \cup QueryPcs

\* run_queries failed at a query after some queries had run, that is after
\* normalise_and_store_sqlite had returned normally, and every connection is closed
C8_Witness ==
  /\ pc = "failed"
  /\ err = "StoreError"
  /\ Has(completed, "store")
  /\ Has(started, "queries")
  /\ DOMAIN out # {}
  /\ conn = 0

\* C10: the stages of main start in the order discovery, load, (preview,)
\* store, queries, result files, charts; a stage starts only when every earlier
\* stage has completed without error; a not-found failure happens before any
\* file is loaded, and a parse failure before any write to the store.
C10_StagesInOrder ==
  /\ Len(started) <= Len(StageOrder)
  /\ \A i \in DOMAIN started : started[i] = StageOrder[i]
  /\ \/ completed = started
     \/ started # <<>> /\ completed = SubSeq(started, 1, Len(started) - 1)
  /\ err # "none" => completed # started
  /\ err = "FileNotFoundError" =>
       /\ ~Has(started, "load")
       /\ users = NoFrame /\ cards = NoFrame /\ transactions = NoFrame
  /\ err = "ParseError" =>
       /\ ~Has(started, "store")
       /\ db = EmptyDb
       /\ "user_behavior.db" \notin fs

\* a run that stopped on a parse failure in load_data
C10_Witness ==
  /\ pc = "failed"
  /\ err = "ParseError"
  /\ started = <<"discover", "load">>
  /\ completed = <<"discover">>

---------------------------------------------------------------------------
(* Properties of the age buckets *)

\* the bucket C1 as stated gives each age of its boundary list
ClaimedBucket ==
  (29 :> "<30") @@ (30 :> "30-39") @@ (39 :> "30-39") @@ (40 :> "40-49") @@
  (59 :> "50-59") @@ (60 :> "50-59") @@ (69 :> "60-69") @@ (70 :> "70+") @@
  (95 :> "70+")

\* the same with 60, a boundary value, in the upper bucket
AmendedBucket == (60 :> "60-69") @@ ClaimedBucket

SqlAgeCounts == {<<r.age_bucket, r.num_users>> : r \in RowSet(results["age_distribution"])}
ChartAgeCounts == {<<r.age_bucket, r.count>> : r \in RowSet(charts["age_distribution"])}

\* on a users table whose ages are all in the list, both results count each
\* user in the bucket that `expect` gives the user's age
CountsFollow(expect) ==
  LET listed == \A i \in DOMAIN users :
                  /\ users[i].current_age # NULL
                  /\ users[i].current_age[2] = 0
                  /\ users[i].current_age[1] \in DOMAIN expect
      n(l) == Cardinality({i \in DOMAIN users : expect[users[i].current_age[1]] = l})
      expected == {<<l, n(l)>> : l \in {x \in RowSet(LabelOrder) : n(x) > 0}}
  IN listed =>
       /\ "age_distribution" \in DOMAIN results => SqlAgeCounts = expected
       /\ "age_distribution" \in DOMAIN charts => ChartAgeCounts = expected

\* C1 as stated: the age_distribution query and create_charts put the ages 29,
\* 30, 39, 40, 59, 60, 69, 70, 95 into the buckets '<30', '30-39', '30-39',
\* '40-49', '50-59', '50-59', '60-69', '70+', '70+' respectively.
C1_AsStated == CountsFollow(ClaimedBucket)

\* C1 amended: the age_distribution query and create_charts put the ages 29,
\* 30, 39, 40, 59, 60, 69, 70, 95 into the buckets '<30', '30-39', '30-39',
\* '40-49', '50-59', '60-69', '60-69', '70+', '70+' respectively: 60, like
\* every boundary value, belongs to the upper bucket.
C1_BoundaryAges == CountsFollow(AmendedBucket)

\* a finished run on users aged 59 and 60
C1_Witness ==
  /\ pc = "done"
  /\ users = <<User(<<59, 0>>), User(<<60, 0>>)>>
  /\ SqlAgeCounts = {<<"50-59", 1>>, <<"60-69", 1>>}
  /\ ChartAgeCounts = {<<"50-59", 1>>, <<"60-69", 1>>}

\* C2: whatever the current_age values (whole, fractional or missing), the
\* age-bucket counts of create_charts equal the age_distribution result of
\* run_queries over the same table: same labels, same count each.
C2_AgeCountsAgree ==
  ("age_distribution" \in DOMAIN results /\ "age_distribution" \in DOMAIN charts)
    => SqlAgeCounts = ChartAgeCounts

---------------------------------------------------------------------------
(* Properties of the store *)

\* C3: after a normalise_and_store_sqlite call has returned normally, whatever
\* runs came before it on the same store, each of the tables users, cards and
\* transactions holds exactly the rows of that call's input, so that a second
\* call with the same input leaves the row counts those of the input.
C3_StoreHoldsLastInput ==
  Has(completed, "store") =>
    /\ db.users = [present |-> TRUE, rows |-> users]
    /\ db.cards = [present |-> TRUE, rows |-> cards]
    /\ db.transactions = [present |-> TRUE, rows |-> transactions]
    /\ Len(db.users.rows) = Len(users)
    /\ Len(db.cards.rows) = Len(cards)
    /\ Len(db.transactions.rows) = Len(transactions)

\* the second of two calls with the same non-empty input has returned normally
C3_Witness ==
  /\ runs = 2
  /\ Has(completed, "store")
  /\ Len(stored) = 2
  /\ stored[1] = stored[2]
  /\ users # <<>> /\ cards # <<>> /\ transactions # <<>>

---------------------------------------------------------------------------
(* Properties of the brand averages *)

SqlBrandAvgs ==
  {<<r.card_brand, r.avg_amount>> : r \in RowSet(results["avg_txn_amount_by_brand"])}
ChartBrandAvgs ==
  {<<r.card_brand, r.amount>> : r \in RowSet(charts["avg_amount_by_brand"])}

HasCard(crows, t) == \E j \in DOMAIN crows : crows[j].id = t.card_id

\* the transactions whose card_id is the id of a Card row
Matched(crows, trows) == SelectSeq(trows, LAMBDA t : HasCard(crows, t))

\* C4: when every transaction's card_id matches a Card row, the
\* avg_txn_amount_by_brand result and the brand-average series of
\* create_charts hold the same brands, each with the same average (same sum
\* and count of amounts).
C4_BrandAveragesAgree ==
  ( /\ "avg_txn_amount_by_brand" \in DOMAIN results
    /\ "avg_amount_by_brand" \in DOMAIN charts
    /\ \A i \in DOMAIN transactions : HasCard(cards, transactions[i]) )
    => SqlBrandAvgs = ChartBrandAvgs

\* C5: a transaction whose card_id is the id of no Card row contributes to no
\* brand's average: both results are those of the table without such rows.
C5_UnmatchedExcluded ==
  /\ "avg_txn_amount_by_brand" \in DOMAIN results =>
       SqlBrandAvgs =
         UNION {{<<r.card_brand, r.avg_amount>> : r \in RowSet(o)} :
                  o \in AvgTxnAmountByBrand(db.cards.rows,
                                            Matched(db.cards.rows, db.transactions.rows))}
  /\ "avg_amount_by_brand" \in DOMAIN charts =>
       ChartBrandAvgs =
         UNION {{<<r.card_brand, r.amount>> : r \in RowSet(o)} :
                  o \in ChartBrandAvg(cards, Matched(cards, transactions))}

\* a finished run with a transaction on a known card and one, with an amount,
\* on no card
C5_Witness ==
  /\ pc = "done"
  /\ \E i \in DOMAIN transactions :
       ~HasCard(cards, transactions[i]) /\ transactions[i].amount # NULL
  /\ \E i \in DOMAIN transactions :
       HasCard(cards, transactions[i]) /\ transactions[i].amount # NULL
  /\ SqlBrandAvgs # {}
  /\ ChartBrandAvgs # {}

---------------------------------------------------------------------------
(* Properties of top_mcc *)

MccCount(trows, m) == Cardinality({i \in DOMAIN trows : trows[i].mcc = m})

\* C6: top_mcc has at most 5 rows, one per distinct mcc value and with that
\* value's count, its counts never increase from one row to the next, and no
\* mcc value left out has a higher count than one that is in.
C6_TopMcc ==
  "top_mcc" \in DOMAIN results =>
    LET r == results["top_mcc"]
        t == db.transactions.rows
        all == {t[i].mcc : i \in DOMAIN t}
        shown == {r[i].mcc : i \in DOMAIN r}
    IN /\ Len(r) <= 5
       /\ \A i, j \in DOMAIN r : i # j => r[i].mcc # r[j].mcc
       /\ \A i \in DOMAIN r : r[i].mcc \in all /\ r[i].txn_count = MccCount(t, r[i].mcc)
       /\ \A i, j \in DOMAIN r : i < j => r[i].txn_count >= r[j].txn_count
       /\ \A m \in all \ shown : \A i \in DOMAIN r : MccCount(t, m) <= r[i].txn_count

\* a finished run on more than five distinct codes, one of them used twice
C6_Witness ==
  /\ pc = "done"
  /\ Cardinality({transactions[i].mcc : i \in DOMAIN transactions}) > 5
  /\ Len(results["top_mcc"]) = 5
  /\ results["top_mcc"][1].txn_count = 2
  /\ results["top_mcc"][5].txn_count = 1

---------------------------------------------------------------------------
(* Properties of create_charts *)

\* the source columns each derivation is said to require
RequiredColumns ==
  [d \in Derivations |->
     IF d = "gender_distribution" THEN {"gender"}
     ELSE IF d = "card_type_distribution" THEN {"card_type"}
     ELSE IF d = "age_distribution" THEN {"current_age"}
     ELSE IF d = "transaction_method_distribution" THEN {"use_chip"}
     ELSE IF d = "top_mcc_frequency" THEN {"mcc"}
     ELSE {"card_brand", "id", "card_id", "amount"}]

\* C9: whatever source columns are absent, create_charts raises no error for
\* an absent column, skips each derivation with a required column absent, and
\* produces the series of every derivation whose required columns are present.
C9_PartialOutput ==
  /\ err # "KeyError"
  /\ pc = "done" =>
       DOMAIN charts = {d \in Derivations : RequiredColumns[d] \subseteq columns}

\* create_charts returned with amount and gender absent: four series, two skipped
C9_Witness ==
  /\ pc = "done"
  /\ columns = AllCols \ {"amount", "gender"}
  /\ DOMAIN charts = Derivations \ {"avg_amount_by_brand", "gender_distribution"}

====
